---------------------------- MODULE Spec2Model ----------------------------
(***************************************************************************)
(* Stack (bump) allocator of gradinarovo/StackAllocator: one TStack_alloc  *)
(* instance over a caller-owned byte buffer.  Addresses and sizes are      *)
(* unsigned machine words (uint32 in the source); the model keeps the same *)
(* modular arithmetic over a narrower word of AddrBits bits.               *)
(***************************************************************************)
EXTENDS Integers, FiniteSets, Sequences, TLC

(* ------------------------------ bounds --------------------------------- *)
\* Width of the machine word standing for uint32 / a pointer.
AddrBits == 6
\* Largest "ordinary" request size enumerated for Alloc (besides the
\* boundary sizes listed in AllocSizes).
MaxSize == 3

AddrMod == 2 ^ AddrBits
\* Most allocations observed live at a time, and most addresses observed as
\* handed out, in the specifications that observe them.
MaxLive == 2
MaxIssued == 2

(* ------------------------ program constants ---------------------------- *)
STACK_ALLOC_ALIGNMENT == 8
NULL_PTR == 0
SIZE_MAX == AddrMod - 1

STACK_ALLOC_OK == 0
STACK_ALLOC_ERROR_INVALID_PARAM == 1
STACK_ALLOC_ERROR_OUT_OF_MEMORY == 2
STACK_ALLOC_ERROR_CORRUPTED_STATE == 3
STACK_ALLOC_ERROR_INVALID_MARKER == 4

\* The one allocator object of the model; a TStack_alloc* argument is either
\* NULL_PTR or the address of this object.
SA == 1

\* (uint32) conversion / wrap-around of unsigned arithmetic.
U32(x) == (x + AddrMod) % AddrMod

\* The struct TStack_alloc.
TStack_alloc(bs, be, cur, cap) ==
    [buffer_start |-> bs, buffer_end |-> be, current |-> cur, capacity |-> cap]

\* The bytes of the address space, and the memory as a function of them.
Addresses == 0 .. (AddrMod - 1)

(* --------------------------- pure helpers ------------------------------ *)
\* The memory-zeroing primitive of helper_routines.h: sets the count bytes
\* from ptr on to value and leaves every other byte alone.
mem_set(bytes, ptr, value, count) ==
    [x \in Addresses |-> IF ptr <= x /\ x < ptr + count THEN value ELSE bytes[x]]

AlignUp_NoRound(address, alignment) == address

AlignUp(address, alignment) ==
    LET remainder == address % alignment
    IN  IF remainder = 0
        THEN address
        ELSE U32(address + (alignment - remainder))

GetAlignedStart(s) == AlignUp(s.buffer_start, STACK_ALLOC_ALIGNMENT)

(* ------------------------- the API functions --------------------------- *)
\* Each function is an operator from (arguments, object before) to
\* [ret |-> returned value, obj |-> object after].

StackAlloc_Init_ZeroSizeOnly(sa, s, buffer, buffer_size) ==
    IF (sa = NULL_PTR) \/ (buffer = NULL_PTR) \/ (buffer_size = 0)
    THEN [ret |-> STACK_ALLOC_ERROR_INVALID_PARAM, obj |-> s]
    ELSE LET s1 == TStack_alloc(buffer, U32(buffer + buffer_size), s.current, buffer_size)
             s2 == [s1 EXCEPT !.current = GetAlignedStart(s1)]
         IN  IF s2.current >= s2.buffer_end
             THEN [ret |-> STACK_ALLOC_ERROR_OUT_OF_MEMORY, obj |-> s2]
             ELSE [ret |-> STACK_ALLOC_OK, obj |-> s2]

StackAlloc_Init_NoSpaceCheck(sa, s, buffer, buffer_size) ==
    IF (sa = NULL_PTR) \/ (buffer = NULL_PTR) \/ (buffer_size < STACK_ALLOC_ALIGNMENT)
    THEN [ret |-> STACK_ALLOC_ERROR_INVALID_PARAM, obj |-> s]
    ELSE LET s1 == TStack_alloc(buffer, U32(buffer + buffer_size), s.current, buffer_size)
             s2 == [s1 EXCEPT !.current = GetAlignedStart(s1)]
         IN  [ret |-> STACK_ALLOC_OK, obj |-> s2]

StackAlloc_Init_KeepCurrent(sa, s, buffer, buffer_size) ==
    IF (sa = NULL_PTR) \/ (buffer = NULL_PTR) \/ (buffer_size < STACK_ALLOC_ALIGNMENT)
    THEN [ret |-> STACK_ALLOC_ERROR_INVALID_PARAM, obj |-> s]
    ELSE LET s1 == TStack_alloc(buffer, U32(buffer + buffer_size), s.current, buffer_size)
         IN  IF s1.current >= s1.buffer_end
             THEN [ret |-> STACK_ALLOC_ERROR_OUT_OF_MEMORY, obj |-> s1]
             ELSE [ret |-> STACK_ALLOC_OK, obj |-> s1]

StackAlloc_Init(sa, s, buffer, buffer_size) ==
    IF (sa = NULL_PTR) \/ (buffer = NULL_PTR) \/ (buffer_size < STACK_ALLOC_ALIGNMENT)
    THEN [ret |-> STACK_ALLOC_ERROR_INVALID_PARAM, obj |-> s]
    ELSE LET s1 == TStack_alloc(buffer, U32(buffer + buffer_size), s.current, buffer_size)
             s2 == [s1 EXCEPT !.current = GetAlignedStart(s1)]
         IN  IF s2.current >= s2.buffer_end
             THEN [ret |-> STACK_ALLOC_ERROR_OUT_OF_MEMORY, obj |-> s2]
             ELSE [ret |-> STACK_ALLOC_OK, obj |-> s2]

\* fold: the build's outcome for the test (new_top < aligned_ptr) when
\* aligned_ptr + size leaves the address space.  That pointer addition is
\* undefined behaviour: a build that evaluates the test on the wrapped value
\* finds it TRUE (fold = FALSE), a build that folds the test away finds it
\* FALSE (fold = TRUE).  When the addition does not overflow the test is
\* FALSE in every build.
StackAlloc_Alloc_NoZeroCheck(sa, s, size, fold) ==
    IF sa = NULL_PTR
    THEN [ret |-> NULL_PTR, obj |-> s]
    ELSE LET aligned_ptr == AlignUp(s.current, STACK_ALLOC_ALIGNMENT)
             sum         == aligned_ptr + size
             new_top     == U32(sum)
             overflow    == IF sum >= AddrMod THEN ~fold ELSE new_top < aligned_ptr
         IN  IF overflow \/ (new_top > s.buffer_end)
             THEN [ret |-> NULL_PTR, obj |-> s]
             ELSE [ret |-> aligned_ptr, obj |-> [s EXCEPT !.current = new_top]]

StackAlloc_Alloc(sa, s, size, fold) ==
    IF (sa = NULL_PTR) \/ (size = 0)
    THEN [ret |-> NULL_PTR, obj |-> s]
    ELSE LET aligned_ptr == AlignUp(s.current, STACK_ALLOC_ALIGNMENT)
             sum         == aligned_ptr + size
             new_top     == U32(sum)
             overflow    == IF sum >= AddrMod THEN ~fold ELSE new_top < aligned_ptr
         IN  IF overflow \/ (new_top > s.buffer_end)
             THEN [ret |-> NULL_PTR, obj |-> s]
             ELSE [ret |-> aligned_ptr, obj |-> [s EXCEPT !.current = new_top]]

\* bytes: the memory before the call; mem: the memory after it.
StackAlloc_Calloc_ZeroNum(sa, s, bytes, num, size, fold) ==
    IF (num = 0) \/ (size = 0)
    THEN [ret |-> NULL_PTR, obj |-> s, mem |-> bytes]
    ELSE IF num > (SIZE_MAX \div size)
    THEN [ret |-> NULL_PTR, obj |-> s, mem |-> bytes]
    ELSE LET total == U32(num * size)
             r     == StackAlloc_Alloc(sa, s, total, fold)
         IN  [ret |-> r.ret, obj |-> r.obj,
              mem |-> IF r.ret # NULL_PTR THEN mem_set(bytes, r.ret, 0, num) ELSE bytes]

StackAlloc_Calloc_NoOverflowCheck(sa, s, bytes, num, size, fold) ==
    IF (num = 0) \/ (size = 0)
    THEN [ret |-> NULL_PTR, obj |-> s, mem |-> bytes]
    ELSE LET total == U32(num * size)
             r     == StackAlloc_Alloc(sa, s, total, fold)
         IN  [ret |-> r.ret, obj |-> r.obj,
              mem |-> IF r.ret # NULL_PTR THEN mem_set(bytes, r.ret, 0, total) ELSE bytes]

StackAlloc_Calloc(sa, s, bytes, num, size, fold) ==
    IF (num = 0) \/ (size = 0)
    THEN [ret |-> NULL_PTR, obj |-> s, mem |-> bytes]
    ELSE IF num > (SIZE_MAX \div size)
    THEN [ret |-> NULL_PTR, obj |-> s, mem |-> bytes]
    ELSE LET total == U32(num * size)
             r     == StackAlloc_Alloc(sa, s, total, fold)
         IN  [ret |-> r.ret, obj |-> r.obj,
              mem |-> IF r.ret # NULL_PTR THEN mem_set(bytes, r.ret, 0, total) ELSE bytes]

StackAlloc_GetMarker(sa, s) ==
    IF sa = NULL_PTR THEN NULL_PTR ELSE s.current

StackAlloc_FreeToMarker_NoUpper(sa, s, marker) ==
    IF (sa = NULL_PTR) \/ (marker = NULL_PTR)
    THEN [ret |-> STACK_ALLOC_ERROR_INVALID_PARAM, obj |-> s]
    ELSE IF marker < s.buffer_start
    THEN [ret |-> STACK_ALLOC_ERROR_INVALID_MARKER, obj |-> s]
    ELSE IF (marker % STACK_ALLOC_ALIGNMENT) # 0
    THEN [ret |-> STACK_ALLOC_ERROR_INVALID_MARKER, obj |-> s]
    ELSE [ret |-> STACK_ALLOC_OK, obj |-> [s EXCEPT !.current = marker]]

StackAlloc_FreeToMarker_Unaligned(sa, s, marker) ==
    IF (sa = NULL_PTR) \/ (marker = NULL_PTR)
    THEN [ret |-> STACK_ALLOC_ERROR_INVALID_PARAM, obj |-> s]
    ELSE IF (marker < s.buffer_start) \/ (marker >= s.current)
    THEN [ret |-> STACK_ALLOC_ERROR_INVALID_MARKER, obj |-> s]
    ELSE [ret |-> STACK_ALLOC_OK, obj |-> [s EXCEPT !.current = marker]]

StackAlloc_FreeToMarker(sa, s, marker) ==
    IF (sa = NULL_PTR) \/ (marker = NULL_PTR)
    THEN [ret |-> STACK_ALLOC_ERROR_INVALID_PARAM, obj |-> s]
    ELSE IF (marker < s.buffer_start) \/ (marker >= s.current)
    THEN [ret |-> STACK_ALLOC_ERROR_INVALID_MARKER, obj |-> s]
    ELSE IF (marker # NULL_PTR) /\ ((marker % STACK_ALLOC_ALIGNMENT) # 0)
    THEN [ret |-> STACK_ALLOC_ERROR_INVALID_MARKER, obj |-> s]
    ELSE [ret |-> STACK_ALLOC_OK, obj |-> [s EXCEPT !.current = marker]]

StackAlloc_Reset_ToBufferStart(sa, s) ==
    IF sa # NULL_PTR
    THEN [s EXCEPT !.current = s.buffer_start]
    ELSE s

StackAlloc_Reset(sa, s) ==
    IF sa # NULL_PTR
    THEN [s EXCEPT !.current = GetAlignedStart(s)]
    ELSE s

StackAlloc_GetCapacity_NoNullCheck(sa, s) == s.capacity

StackAlloc_GetCapacity(sa, s) ==
    IF sa # NULL_PTR THEN s.capacity ELSE 0

StackAlloc_GetUsed_FromBufferStart(sa, s) ==
    IF sa = NULL_PTR THEN 0 ELSE U32(s.current - s.buffer_start)

StackAlloc_GetUsed(sa, s) ==
    IF sa = NULL_PTR
    THEN 0
    ELSE LET aligned_start == GetAlignedStart(s)
         IN  U32(s.current - aligned_start)

StackAlloc_GetAvailable(sa, s) ==
    IF sa # NULL_PTR THEN U32(s.buffer_end - s.current) ELSE 0

StackAlloc_Validate(sa, s) ==
    IF (sa = NULL_PTR) \/ (s.buffer_start = NULL_PTR) \/ (s.buffer_end = NULL_PTR)
    THEN STACK_ALLOC_ERROR_CORRUPTED_STATE
    ELSE IF s.buffer_start > s.buffer_end
    THEN STACK_ALLOC_ERROR_CORRUPTED_STATE
    ELSE LET aligned_start == GetAlignedStart(s)
         IN  IF (s.current < aligned_start) \/ (s.current > s.buffer_end)
             THEN STACK_ALLOC_ERROR_CORRUPTED_STATE
             ELSE STACK_ALLOC_OK

(* ------------------------------ state ---------------------------------- *)
VARIABLES
    obj,      \* the TStack_alloc object (its four fields)
    ready,    \* TRUE once StackAlloc_Init has returned STACK_ALLOC_OK on obj
    call,     \* the last API call: [op, sa, a, b, ret]
    pre,      \* obj and the bookkeeping below as they were before that call
    mark,     \* last value GetMarker returned, GetUsed at that moment, and
              \* whether a successful Alloc followed it
    prev,     \* last successful allocation (address, size) of the current run
              \* of allocations
    rewound,  \* marker of the last successful FreeToMarker not yet followed
              \* by a successful allocation
    mem,      \* the bytes of the address space (the buffers lie in it), in
              \* the specification that observes them
    live,     \* the allocations (address, size) returned and not yet freed,
              \* oldest first
    issued    \* the addresses Alloc, Calloc and GetMarker have returned since
              \* the last successful Init

vars == <<obj, ready, call, pre, mark, prev, rewound, mem, live, issued>>

NoMark    == [set |-> FALSE, m |-> NULL_PTR, used |-> 0, allocs |-> FALSE]
NoPrev    == [set |-> FALSE, ptr |-> NULL_PTR, size |-> 0]
NoRewound == [set |-> FALSE, m |-> NULL_PTR]

Call(op, sa, a, b, ret) == [op |-> op, sa |-> sa, a |-> a, b |-> b, ret |-> ret]
Snapshot == [obj |-> obj, mark |-> mark, prev |-> prev, rewound |-> rewound,
             mem |-> mem]

\* The allocations of a sequence that end at or below the cursor: the
\* others are freed when a rewind moves the cursor there.
StillLive(allocs, cursor) ==
    SelectSeq(allocs, LAMBDA x : x.ptr + x.size <= cursor)

\* Contents of the memory: every byte non-zero, or every other byte.
AllSet    == [x \in Addresses |-> 1]
Alternate == [x \in Addresses |-> x % 2]

\* A TStack_alloc* argument.  An object that was never initialised is
\* passed only to StackAlloc_Init and to calls that return before reading it.
Handles == {NULL_PTR, SA}
Usable(sa) == (sa = NULL_PTR) \/ ready

(* --------------------------- input domains ----------------------------- *)
\* Buffers handed to StackAlloc_Init: absent, aligned, unaligned, and one
\* whose end lies within STACK_ALLOC_ALIGNMENT bytes of the top of the
\* address space.
BufferAddrs ==
    {NULL_PTR, STACK_ALLOC_ALIGNMENT, STACK_ALLOC_ALIGNMENT + 3,
     AddrMod - 3 * STACK_ALLOC_ALIGNMENT - 3}
BufferSizes ==
    {0, STACK_ALLOC_ALIGNMENT - 1, 3 * STACK_ALLOC_ALIGNMENT}
\* A buffer is an object: it ends inside the address space.
IsObject(buffer, buffer_size) == buffer + buffer_size < AddrMod

\* Request sizes: the small ones, one and one more than the alignment, one
\* that carries any address past the top of the address space, and one byte
\* more than GetAvailable reports.
AllocSizes(sa, s) ==
    IF sa = NULL_PTR THEN {MaxSize}
    ELSE (0 .. MaxSize)
            \cup {STACK_ALLOC_ALIGNMENT, STACK_ALLOC_ALIGNMENT + 1,
                  AddrMod - STACK_ALLOC_ALIGNMENT}
            \cup {StackAlloc_GetAvailable(SA, s),
                  U32(StackAlloc_GetAvailable(SA, s) + 1)}

CallocNums(sa)  == IF sa = NULL_PTR THEN {1} ELSE {0, 1, 3}
\* The largest element size makes 3 elements exceed SIZE_MAX by a few bytes.
CallocSizes(sa) == IF sa = NULL_PTR THEN {1} ELSE {0, 3, AddrMod \div 3 + 1}

\* The bytes a call finds.  The caller owns them between the calls and
\* writes what it likes; a specification that observes the memory draws
\* them at each call.
Fills(track) == IF "mem" \in track THEN {AllSet, Alternate} ELSE {mem}

\* The state a call starts from, bytes being the memory it finds.
Before(bytes) == [Snapshot EXCEPT !.mem = bytes]

\* Markers: absent, the buffer's ends, aligned and unaligned addresses
\* inside it, the cursor, and the addresses the caller was given.
Markers(sa, s) ==
    IF sa = NULL_PTR THEN {s.current}
    ELSE LET as == GetAlignedStart(s)
         IN  {NULL_PTR, s.buffer_start, as, as + 3,
              as + STACK_ALLOC_ALIGNMENT, as + 2 * STACK_ALLOC_ALIGNMENT,
              s.current, s.buffer_end, U32(s.buffer_end + 1)}
             \cup (IF mark.set THEN {mark.m} ELSE {})
             \cup (IF prev.set THEN {prev.ptr} ELSE {})

(* ------------------------------ actions -------------------------------- *)
\* mark, prev and rewound are observations of the call history; a
\* specification keeps the ones named in its set `track` and leaves the
\* others at their initial value.
Keep(track, name, new, old) == IF name \in track THEN new ELSE old

Init ==
    /\ obj = TStack_alloc(NULL_PTR, NULL_PTR, NULL_PTR, 0)
    /\ ready = FALSE
    /\ call = Call("none", NULL_PTR, 0, 0, 0)
    /\ mem = AllSet
    /\ live = << >>
    /\ issued = {}
    /\ pre = [obj |-> obj, mark |-> NoMark, prev |-> NoPrev, rewound |-> NoRewound,
              mem |-> mem]
    /\ mark = NoMark
    /\ prev = NoPrev
    /\ rewound = NoRewound

\* The buffers handed to Init.  They are objects, except in a specification
\* that observes "wrap": there the caller also passes ranges that leave the
\* address space, and the smallest size Init accepts.
InitAddrs(track) ==
    IF "wrap" \in track
    THEN BufferAddrs \cup {AddrMod - STACK_ALLOC_ALIGNMENT, AddrMod - 3}
    ELSE BufferAddrs
InitSizes(track) ==
    IF "wrap" \in track
    THEN BufferSizes \cup {STACK_ALLOC_ALIGNMENT}
    ELSE BufferSizes

Call_Init(track, bytes) ==
    \E sa \in Handles, buffer \in InitAddrs(track), buffer_size \in InitSizes(track) :
        /\ "wrap" \in track \/ IsObject(buffer, buffer_size)
        /\ LET r == StackAlloc_Init(sa, obj, buffer, buffer_size)
           IN  /\ obj' = r.obj
               /\ ready' = (ready \/ (sa # NULL_PTR /\ r.ret = STACK_ALLOC_OK))
               /\ call' = Call("Init", sa, buffer, buffer_size, r.ret)
               /\ pre' = Before(bytes)
               /\ mem' = bytes
               /\ mark' = IF sa = NULL_PTR THEN mark ELSE NoMark
               /\ prev' = IF sa = NULL_PTR THEN prev ELSE NoPrev
               /\ rewound' = IF sa = NULL_PTR THEN rewound ELSE NoRewound
               /\ live' = IF sa # NULL_PTR /\ r.ret = STACK_ALLOC_OK THEN << >> ELSE live
               /\ issued' = IF sa # NULL_PTR /\ r.ret = STACK_ALLOC_OK THEN {} ELSE issued

\* The outcomes of the overflow test of StackAlloc_Alloc: those of the
\* builds considered when aligned_ptr + size leaves the address space, the
\* single defined one otherwise.
Folds(builds, sa, s, size) ==
    IF sa # NULL_PTR /\ AlignUp(s.current, STACK_ALLOC_ALIGNMENT) + size >= AddrMod
    THEN builds
    ELSE {FALSE}

\* An observation has room for one more address.
Room(track, address) ==
    /\ "live" \in track => Len(live) < MaxLive
    /\ "issued" \in track => (address \in issued \/ Cardinality(issued) < MaxIssued)

\* Bookkeeping common to Alloc and Calloc.
AfterAllocation(track, sa, r, size, plain) ==
    /\ (sa # NULL_PTR /\ r.ret # NULL_PTR) => Room(track, r.ret)
    /\ obj' = r.obj
    /\ mark' = IF sa = NULL_PTR THEN mark
               ELSE IF plain /\ r.ret # NULL_PTR /\ mark.set
                    THEN [mark EXCEPT !.allocs = TRUE]
                    ELSE NoMark
    /\ prev' = IF sa # NULL_PTR /\ r.ret # NULL_PTR
               THEN Keep(track, "prev", [set |-> TRUE, ptr |-> r.ret, size |-> size], prev)
               ELSE prev
    /\ rewound' = IF sa # NULL_PTR /\ r.ret # NULL_PTR THEN NoRewound ELSE rewound
    /\ live' = IF sa # NULL_PTR /\ r.ret # NULL_PTR
               THEN Keep(track, "live", Append(live, [ptr |-> r.ret, size |-> size]), live)
               ELSE live
    /\ issued' = IF sa # NULL_PTR /\ r.ret # NULL_PTR
                 THEN Keep(track, "issued", issued \cup {r.ret}, issued)
                 ELSE issued
    /\ UNCHANGED ready

Call_Alloc(track, builds, bytes) ==
    \E sa \in Handles : \E size \in AllocSizes(sa, obj) : \E fold \in Folds(builds, sa, obj, size) :
        \* size == 0 returns before any field is read: that call is also
        \* made on an object not yet initialised.
        /\ Usable(sa) \/ size = 0
        /\ LET r == StackAlloc_Alloc(sa, obj, size, fold)
           IN  /\ call' = Call("Alloc", sa, size, 0, r.ret)
               /\ pre' = Before(bytes)
               /\ AfterAllocation(track, sa, r, size, TRUE)
               /\ mem' = bytes

Call_Calloc(track, builds, bytes) ==
    \E sa \in Handles : \E num \in CallocNums(sa), size \in CallocSizes(sa) :
      \E fold \in Folds(builds, sa, obj, U32(num * size)) :
        /\ Usable(sa)
        /\ LET r == StackAlloc_Calloc(sa, obj, bytes, num, size, fold)
           IN  /\ call' = Call("Calloc", sa, num, size, r.ret)
               /\ pre' = Before(bytes)
               /\ AfterAllocation(track, sa, r, U32(num * size), FALSE)
               /\ mem' = Keep(track, "mem", r.mem, mem)

Call_GetMarker(track, bytes) ==
    \E sa \in Handles :
        /\ Usable(sa)
        /\ LET m == StackAlloc_GetMarker(sa, obj)
           IN  /\ sa # NULL_PTR => Room(track \ {"live"}, m)
               /\ call' = Call("GetMarker", sa, 0, 0, m)
               /\ pre' = Before(bytes)
               /\ mem' = bytes
               /\ mark' = IF sa = NULL_PTR THEN mark
                          ELSE Keep(track, "mark",
                                    [set |-> TRUE, m |-> m,
                                     used |-> StackAlloc_GetUsed(sa, obj),
                                     allocs |-> FALSE], mark)
               /\ issued' = IF sa = NULL_PTR THEN issued
                            ELSE Keep(track, "issued", issued \cup {m}, issued)
               /\ UNCHANGED <<obj, ready, prev, rewound, live>>

Call_FreeToMarker(track, bytes) ==
    \E sa \in Handles : \E marker \in Markers(sa, obj) :
        /\ Usable(sa)
        /\ LET r == StackAlloc_FreeToMarker(sa, obj, marker)
           IN  /\ obj' = r.obj
               /\ call' = Call("FreeToMarker", sa, marker, 0, r.ret)
               /\ pre' = Before(bytes)
               /\ mem' = bytes
               /\ mark' = IF sa = NULL_PTR THEN mark ELSE NoMark
               /\ prev' = IF sa = NULL_PTR THEN prev ELSE NoPrev
               /\ rewound' = IF r.ret = STACK_ALLOC_OK
                             THEN Keep(track, "rewound", [set |-> TRUE, m |-> marker], rewound)
                             ELSE rewound
               /\ live' = IF r.ret = STACK_ALLOC_OK
                          THEN StillLive(live, r.obj.current) ELSE live
               /\ UNCHANGED <<ready, issued>>

Call_Reset(bytes) ==
    \E sa \in Handles :
        /\ Usable(sa)
        /\ obj' = StackAlloc_Reset(sa, obj)
        /\ call' = Call("Reset", sa, 0, 0, 0)
        /\ pre' = Before(bytes)
        /\ mem' = bytes
        /\ mark' = IF sa = NULL_PTR THEN mark ELSE NoMark
        /\ prev' = IF sa = NULL_PTR THEN prev ELSE NoPrev
        /\ rewound' = IF sa = NULL_PTR THEN rewound ELSE NoRewound
        /\ live' = IF sa = NULL_PTR THEN live
                   ELSE StillLive(live, StackAlloc_Reset(sa, obj).current)
        /\ UNCHANGED <<ready, issued>>

\* The read-only calls: they return a value and change nothing.
Query(op, sa, ret, bytes) ==
    /\ Usable(sa)
    /\ call' = Call(op, sa, 0, 0, ret)
    /\ pre' = Before(bytes)
    /\ mem' = bytes
    /\ UNCHANGED <<obj, ready, mark, prev, rewound, live, issued>>

Call_GetCapacity(bytes) ==
    \E sa \in Handles : Query("GetCapacity", sa, StackAlloc_GetCapacity(sa, obj), bytes)
Call_GetUsed(bytes) ==
    \E sa \in Handles : Query("GetUsed", sa, StackAlloc_GetUsed(sa, obj), bytes)
Call_GetAvailable(bytes) ==
    \E sa \in Handles : Query("GetAvailable", sa, StackAlloc_GetAvailable(sa, obj), bytes)
Call_Validate(bytes) ==
    \E sa \in Handles : Query("Validate", sa, StackAlloc_Validate(sa, obj), bytes)

Step(track, builds) ==
    \E bytes \in Fills(track) :
        \/ Call_Init(track, bytes)
        \/ Call_Alloc(track, builds, bytes)
        \/ Call_Calloc(track, builds, bytes)
        \/ Call_GetMarker(track, bytes)
        \/ Call_FreeToMarker(track, bytes)
        \/ Call_Reset(bytes)
        \/ Call_GetCapacity(bytes)
        \/ Call_GetUsed(bytes)
        \/ Call_GetAvailable(bytes)
        \/ Call_Validate(bytes)

\* Builds that evaluate the overflow test of StackAlloc_Alloc on the wrapped
\* pointer, as it is written.
AsWritten == {FALSE}
\* Those, and builds that fold the test away.
AnyBuild == BOOLEAN

\* The allocator under any sequence of calls and any build, observing
\* FreeToMarker's rewinds.
Next == Step({"rewound"}, AnyBuild)
Spec == Init /\ [][Next]_vars

\* The allocator built as written, observing the markers GetMarker hands out.
NextMarker == Step({"mark"}, AsWritten)
SpecMarker == Init /\ [][NextMarker]_vars

\* The allocator built as written, observing runs of consecutive allocations.
NextRun == Step({"prev"}, AsWritten)
SpecRun == Init /\ [][NextRun]_vars

\* The allocator built as written, observing the bytes of the memory.
NextMem == Step({"mem"}, AsWritten)
SpecMem == Init /\ [][NextMem]_vars

\* The allocator of any build, handed also buffers that are no objects.
NextWrap == Step({"wrap"}, AnyBuild)
SpecWrap == Init /\ [][NextWrap]_vars

\* The allocator built as written, observing the live allocations.
NextLive == Step({"live"}, AsWritten)
SpecLive == Init /\ [][NextLive]_vars

\* The allocator built as written, observing the addresses handed out.
NextIssued == Step({"issued"}, AsWritten)
SpecIssued == Init /\ [][NextIssued]_vars

(* ------------------------------ claims --------------------------------- *)
\* The last call was made on the (initialised) instance.
OnInstance(op) == call.op = op /\ call.sa = SA
Allocated(op)  == OnInstance(op) /\ call.ret # NULL_PTR
Aligned(x)     == x % STACK_ALLOC_ALIGNMENT = 0

\* C1: a marker m taken with GetMarker when GetUsed was u, followed by one
\* or more successful Allocate calls, is accepted by FreeToMarker (Ok) and
\* GetUsed is u again afterwards -- also when the sizes allocated before m
\* was taken were not multiples of the alignment.
C1_RewindToMarkerRestoresUsed ==
    (OnInstance("FreeToMarker") /\ pre.mark.set /\ pre.mark.allocs
        /\ call.a = pre.mark.m)
    => (call.ret = STACK_ALLOC_OK /\ StackAlloc_GetUsed(SA, obj) = pre.mark.used)

\* C2: every address a successful Alloc or Calloc returns is a multiple of
\* STACK_ALLOC_ALIGNMENT, wherever the buffer starts.
C2_ReturnedAddressAligned ==
    (Allocated("Alloc") \/ Allocated("Calloc")) => Aligned(call.ret)

\* C2 happens: an Alloc succeeded on a buffer with an unaligned start while
\* the cursor was unaligned.
C2_Witness ==
    /\ Allocated("Alloc")
    /\ ~Aligned(pre.obj.buffer_start)
    /\ ~Aligned(pre.obj.current)

\* C3: the range [p, p + size) of every successful Alloc lies inside
\* [buffer_start, buffer_end).
C3_AllocationInsideBuffer ==
    Allocated("Alloc")
    => (pre.obj.buffer_start <= call.ret /\ call.ret + call.a <= pre.obj.buffer_end)

\* C4: in a run of successful allocations with no FreeToMarker, Reset or
\* Init between them, each returned address is at or above the previously
\* returned address plus the previously requested size.
C4_AllocationsGrowUpward ==
    ((Allocated("Alloc") \/ Allocated("Calloc")) /\ pre.prev.set)
    => call.ret >= pre.prev.ptr + pre.prev.size

\* C5: FreeToMarker with a non-null marker at or above current returns
\* InvalidMarker and changes no field of the instance.
C5_ForwardMarkerRejected ==
    (OnInstance("FreeToMarker") /\ call.a # NULL_PTR /\ call.a >= pre.obj.current)
    => (call.ret = STACK_ALLOC_ERROR_INVALID_MARKER /\ obj = pre.obj)

\* C5 happens: after a rewind, the aligned address of a discarded allocation
\* (above current, inside the buffer) was passed and rejected.
C5_Witness ==
    /\ OnInstance("FreeToMarker")
    /\ pre.rewound.set
    /\ pre.obj.current = pre.rewound.m
    /\ call.a > pre.obj.current
    /\ call.a < pre.obj.buffer_end
    /\ Aligned(call.a)
    /\ call.ret = STACK_ALLOC_ERROR_INVALID_MARKER

\* C6: a FreeToMarker(m) that returns Ok leaves current = m, and the next
\* successful Alloc returns exactly m.
C6_RewindThenAllocReturnsMarker ==
    /\ (OnInstance("FreeToMarker") /\ call.ret = STACK_ALLOC_OK) => obj.current = call.a
    /\ (Allocated("Alloc") /\ pre.rewound.set) => call.ret = pre.rewound.m

\* C6 happens: after a rewind to an address above the aligned start (the
\* address of an earlier allocation), an Alloc succeeded.
C6_Witness ==
    /\ Allocated("Alloc")
    /\ pre.rewound.set
    /\ pre.rewound.m > GetAlignedStart(pre.obj)

\* C7: once the instance is initialised, after every call
\* GetUsed + GetAvailable (the sum of the two uint32 results, in uint32)
\* equals buffer_end - alignedStart.
C7_UsedPlusAvailable ==
    ready
    => U32(StackAlloc_GetUsed(SA, obj) + StackAlloc_GetAvailable(SA, obj))
         = obj.buffer_end - GetAlignedStart(obj)

\* C7 happens: a failed Alloc on a partly used buffer whose start is not
\* aligned.
C7_Witness ==
    /\ OnInstance("Alloc")
    /\ call.ret = NULL_PTR
    /\ ~Aligned(obj.buffer_start)
    /\ StackAlloc_GetUsed(SA, obj) > 0
    /\ StackAlloc_GetAvailable(SA, obj) > 0

\* C8: Alloc of GetAvailable + 1 bytes returns none and changes no field of
\* the instance.
C8_OneMoreThanAvailableFails ==
    (OnInstance("Alloc") /\ call.a = U32(StackAlloc_GetAvailable(SA, pre.obj) + 1))
    => (call.ret = NULL_PTR /\ obj = pre.obj)

\* C9: Alloc of 0 bytes returns none and changes no field of the instance.
C9_ZeroSizeRejected ==
    (call.op = "Alloc" /\ call.a = 0) => (call.ret = NULL_PTR /\ obj = pre.obj)

\* C9 happens: Alloc(0) was called on an initialised instance with an
\* unaligned cursor and room left.
C9_Witness ==
    /\ OnInstance("Alloc")
    /\ call.a = 0
    /\ ~Aligned(pre.obj.current)
    /\ StackAlloc_GetAvailable(SA, pre.obj) > STACK_ALLOC_ALIGNMENT

\* C10: Reset sets current to the aligned start and nothing else, GetUsed
\* is 0 afterwards, and a second Reset changes nothing.
C10_ResetIdempotent ==
    OnInstance("Reset")
    => /\ obj = [pre.obj EXCEPT !.current = GetAlignedStart(pre.obj)]
       /\ StackAlloc_GetUsed(SA, obj) = 0
       /\ StackAlloc_Reset(SA, obj) = obj

\* C10 happens: Reset discarded allocations on a buffer whose start is not
\* aligned.
C10_Witness ==
    /\ OnInstance("Reset")
    /\ ~Aligned(obj.buffer_start)
    /\ pre.obj.current > GetAlignedStart(pre.obj)
    /\ pre.obj.current <= pre.obj.buffer_end

\* C11: after a successful Calloc(num, size) returning p, every byte of
\* [p, p + num*size) is zero whatever was there before, no byte outside that
\* range is modified, and the returned address and the new current are
\* those Alloc(num*size) produces from the same state.
C11_CallocZeroesExactlyTheBlock ==
    Allocated("Calloc")
    => LET total == call.a * call.b
       IN  /\ \A x \in Addresses :
                mem[x] = IF call.ret <= x /\ x < call.ret + total
                         THEN 0 ELSE pre.mem[x]
           /\ StackAlloc_Alloc(SA, pre.obj, total, FALSE)
                = [ret |-> call.ret, obj |-> obj]

\* C11 happens: 3 elements of 3 bytes were allocated from an unaligned
\* cursor in a memory holding non-zero bytes in the block, in the padding
\* before it and after it.
C11_Witness ==
    /\ Allocated("Calloc")
    /\ call.a = 3 /\ call.b = 3
    /\ ~Aligned(pre.obj.current)
    /\ pre.mem = Alternate
    /\ \E x \in Addresses : call.ret <= x /\ x < call.ret + 9 /\ pre.mem[x] # 0
    /\ \E x \in Addresses : pre.obj.current <= x /\ x < call.ret /\ mem[x] # 0

\* C12: Calloc returns none and leaves the instance and the memory
\* unchanged when num is 0, size is 0, or num*size exceeds SIZE_MAX; the
\* product is never truncated to the word and then allocated.
C12_CallocRejectsZeroAndOverflow ==
    (OnInstance("Calloc") /\ (call.a = 0 \/ call.b = 0 \/ call.a * call.b > SIZE_MAX))
    => (call.ret = NULL_PTR /\ obj = pre.obj /\ mem = pre.mem)

\* C12 happens: the product exceeded SIZE_MAX and its truncation to the word
\* would have fitted in the buffer.
C12_Witness ==
    /\ OnInstance("Calloc")
    /\ call.a * call.b > SIZE_MAX
    /\ StackAlloc_Alloc(SA, pre.obj, U32(call.a * call.b), FALSE).ret # NULL_PTR
    /\ pre.mem = AllSet

\* C13: Init returns INVALID_PARAM when the instance is absent, the buffer
\* is absent, or the buffer size is below the alignment (0 included), and
\* then no field of the instance is modified.
C13_InitRejectsInvalidParameters ==
    (call.op = "Init"
        /\ (call.sa = NULL_PTR \/ call.a = NULL_PTR \/ call.b < STACK_ALLOC_ALIGNMENT))
    => (call.ret = STACK_ALLOC_ERROR_INVALID_PARAM /\ obj = pre.obj)

\* C13 happens: an instance holding allocations was given a present buffer
\* of a size below the alignment and not 0.
C13_Witness ==
    /\ OnInstance("Init")
    /\ call.a # NULL_PTR
    /\ call.a # pre.obj.buffer_start
    /\ 0 < call.b /\ call.b < STACK_ALLOC_ALIGNMENT
    /\ pre.obj.current > GetAlignedStart(pre.obj)
    /\ pre.obj.current <= pre.obj.buffer_end

\* C14: a successful Init leaves buffer_start = buffer, buffer_end = buffer
\* + size, capacity = size and current = the aligned start, whatever the
\* instance held before: it is the state of an Init of a fresh instance, and
\* GetUsed is 0.
C14_InitStampsEveryField ==
    (OnInstance("Init") /\ call.ret = STACK_ALLOC_OK)
    => /\ obj = TStack_alloc(call.a, call.a + call.b,
                             AlignUp(call.a, STACK_ALLOC_ALIGNMENT), call.b)
       /\ obj = StackAlloc_Init(SA, TStack_alloc(NULL_PTR, NULL_PTR, NULL_PTR, 0),
                                call.a, call.b).obj
       /\ StackAlloc_GetUsed(SA, obj) = 0

\* C14 happens: an instance holding allocations in one buffer was
\* initialised again on another buffer, whose start is not aligned.
C14_Witness ==
    /\ OnInstance("Init")
    /\ call.ret = STACK_ALLOC_OK
    /\ pre.obj.current > GetAlignedStart(pre.obj)
    /\ pre.obj.current <= pre.obj.buffer_end
    /\ call.a # pre.obj.buffer_start
    /\ ~Aligned(call.a)

\* C15: on an absent instance GetCapacity, GetUsed and GetAvailable return
\* 0, Alloc, Calloc and GetMarker return none, Reset does nothing,
\* FreeToMarker returns INVALID_PARAM and Validate returns CORRUPTED_STATE;
\* no call changes any state.
C15_AbsentInstanceIsSafe ==
    (call.sa = NULL_PTR /\ call.op \notin {"none", "Init"})
    => /\ obj = pre.obj
       /\ mem = pre.mem
       /\ call.op \in {"GetCapacity", "GetUsed", "GetAvailable"} => call.ret = 0
       /\ call.op \in {"Alloc", "Calloc", "GetMarker"} => call.ret = NULL_PTR
       /\ call.op = "FreeToMarker" => call.ret = STACK_ALLOC_ERROR_INVALID_PARAM
       /\ call.op = "Validate" => call.ret = STACK_ALLOC_ERROR_CORRUPTED_STATE

\* C15 happens: GetCapacity was called with an absent instance while an
\* initialised instance with allocations exists.
C15_Witness ==
    /\ call.op = "GetCapacity"
    /\ call.sa = NULL_PTR
    /\ ready
    /\ obj.capacity > 0
    /\ obj.current > GetAlignedStart(obj)

\* The conditions under which StackAlloc_Validate finds an instance corrupt.
OutOfShape(s) ==
    \/ s.buffer_start = NULL_PTR
    \/ s.buffer_end = NULL_PTR
    \/ s.buffer_start > s.buffer_end
    \/ s.current < AlignUp(s.buffer_start, STACK_ALLOC_ALIGNMENT)
    \/ s.current > s.buffer_end

\* C16: Validate returns CORRUPTED_STATE exactly when the instance is
\* absent, buffer_start or buffer_end is absent, buffer_start > buffer_end,
\* or current lies outside [aligned start, buffer_end], and OK otherwise; it
\* modifies nothing; and it returns OK in every state reached from a
\* successful Init by Alloc, Calloc, FreeToMarker and Reset.
C16_ValidateOkInEveryReachableState ==
    /\ call.op = "Validate"
       => /\ obj = pre.obj
          /\ call.ret = IF call.sa = NULL_PTR \/ OutOfShape(obj)
                        THEN STACK_ALLOC_ERROR_CORRUPTED_STATE
                        ELSE STACK_ALLOC_OK
    /\ ready => StackAlloc_Validate(SA, obj) = STACK_ALLOC_OK

\* C17: after every call on an initialised instance buffer_start <= aligned
\* start <= current <= buffer_end and capacity = buffer_end - buffer_start;
\* and Alloc, Calloc, FreeToMarker, Reset, the accessors and Validate never
\* change buffer_start, buffer_end or capacity.
C17_ShapeInvariant ==
    /\ ready
       => /\ obj.buffer_start <= GetAlignedStart(obj)
          /\ GetAlignedStart(obj) <= obj.current
          /\ obj.current <= obj.buffer_end
          /\ obj.capacity = obj.buffer_end - obj.buffer_start
    /\ call.op \notin {"none", "Init"}
       => /\ obj.buffer_start = pre.obj.buffer_start
          /\ obj.buffer_end = pre.obj.buffer_end
          /\ obj.capacity = pre.obj.capacity

\* C18: right after a successful Alloc or Calloc, and after a Reset,
\* current is a multiple of the alignment, whatever the requested size.
C18_CurrentAlignedAfterAllocation ==
    (Allocated("Alloc") \/ Allocated("Calloc") \/ OnInstance("Reset"))
    => Aligned(obj.current)

\* C19: with an instance and a marker present, FreeToMarker returns OK
\* exactly when buffer_start <= marker < current and the marker is a
\* multiple of the alignment; an unaligned marker inside [buffer_start,
\* current) gets INVALID_MARKER; on every other result than OK no field
\* changes; on OK only current changes, to the marker, and it decreases.
C19_FreeToMarkerAcceptance ==
    (OnInstance("FreeToMarker") /\ call.a # NULL_PTR)
    => LET inside == pre.obj.buffer_start <= call.a /\ call.a < pre.obj.current
       IN  /\ call.ret = STACK_ALLOC_OK <=> (inside /\ Aligned(call.a))
           /\ (inside /\ ~Aligned(call.a))
                => call.ret = STACK_ALLOC_ERROR_INVALID_MARKER
           /\ call.ret # STACK_ALLOC_OK => obj = pre.obj
           /\ call.ret = STACK_ALLOC_OK
                => /\ obj = [pre.obj EXCEPT !.current = call.a]
                   /\ obj.current < pre.obj.current

\* C19 happens: an unaligned marker inside the used part was refused, and
\* an aligned one was accepted (in the state the refusal left).
C19_Witness ==
    /\ OnInstance("FreeToMarker")
    /\ call.ret = STACK_ALLOC_OK
    /\ call.a > GetAlignedStart(obj)
    /\ pre.obj.current > call.a + STACK_ALLOC_ALIGNMENT
    /\ StackAlloc_FreeToMarker(SA, pre.obj, call.a + 3).ret
         = STACK_ALLOC_ERROR_INVALID_MARKER

\* C20: for a buffer that ends inside the address space, every Alloc whose
\* aligned start plus size does not fit at or below buffer_end returns none
\* and leaves current unchanged, also when rounding current up leaves the
\* address space.
C20_AllocThatDoesNotFitChangesNothing ==
    (OnInstance("Alloc") /\ call.a > 0
        /\ LET c == pre.obj.current
               aligned == c + ((STACK_ALLOC_ALIGNMENT - (c % STACK_ALLOC_ALIGNMENT))
                                  % STACK_ALLOC_ALIGNMENT)
           IN  aligned + call.a > pre.obj.buffer_end)
    => (call.ret = NULL_PTR /\ obj = pre.obj)

\* C21: after a successful Init and any interleaving of Alloc, Calloc,
\* FreeToMarker and Reset, two allocations that are both live never overlap;
\* an allocation [p, p + size) is live from its return until a FreeToMarker
\* or a Reset moves current below p + size, or the instance is initialised
\* again.
C21_LiveAllocationsDisjoint ==
    \A i, j \in 1 .. Len(live) :
        i < j => \/ live[i].ptr + live[i].size <= live[j].ptr
                 \/ live[j].ptr + live[j].size <= live[i].ptr

\* C22: on an initialised instance Alloc of size > 0 succeeds exactly when
\* size <= buffer_end - AlignUp(current); so a request for exactly
\* GetAvailable bytes succeeds when current is aligned, and fails leaving the
\* state unchanged when it is not.
C22_AllocSucceedsExactlyWhenItFits ==
    (OnInstance("Alloc") /\ call.a > 0)
    => LET c == pre.obj.current
           aligned == c + ((STACK_ALLOC_ALIGNMENT - (c % STACK_ALLOC_ALIGNMENT))
                              % STACK_ALLOC_ALIGNMENT)
           fits == aligned + call.a <= pre.obj.buffer_end
       IN  /\ call.ret # NULL_PTR <=> fits
           /\ call.a = StackAlloc_GetAvailable(SA, pre.obj)
                => IF Aligned(c)
                   THEN call.ret = c
                   ELSE call.ret = NULL_PTR /\ obj = pre.obj

\* C23: FreeToMarker succeeds only for a marker the instance has handed out
\* since its last Init (a value GetMarker returned or an address Alloc or
\* Calloc returned): an aligned address inside [buffer_start, current) that
\* was never handed out, such as one strictly inside a live allocation, is
\* refused.
C23_OnlyHandedOutMarkersAccepted ==
    (OnInstance("FreeToMarker") /\ call.ret = STACK_ALLOC_OK)
    => call.a \in issued

\* C24: Init returns OUT_OF_MEMORY exactly when, the fields being stamped,
\* the aligned start is at or beyond buffer_end; with an instance, a buffer
\* and a size of at least the alignment whose range buffer + size stays
\* inside the address space that never holds: Init returns OK and leaves a
\* fully initialised instance.
C24_InitOutOfMemoryOnlyWhenWrapped ==
    (OnInstance("Init") /\ call.a # NULL_PTR /\ call.b >= STACK_ALLOC_ALIGNMENT)
    => /\ obj.buffer_start = call.a
       /\ obj.buffer_end = U32(call.a + call.b)
       /\ obj.capacity = call.b
       /\ call.ret = IF GetAlignedStart(obj) >= obj.buffer_end
                     THEN STACK_ALLOC_ERROR_OUT_OF_MEMORY
                     ELSE STACK_ALLOC_OK
       /\ call.a + call.b < AddrMod
            => /\ call.ret = STACK_ALLOC_OK
               /\ StackAlloc_Validate(SA, obj) = STACK_ALLOC_OK
               /\ StackAlloc_GetAvailable(SA, obj) > 0

\* C24 happens: an instance that an Init of a wrapping range had left with
\* OUT_OF_MEMORY was initialised on a buffer of the smallest size with an
\* unaligned start, inside the address space.
C24_Witness ==
    /\ OnInstance("Init")
    /\ call.ret = STACK_ALLOC_OK
    /\ call.b = STACK_ALLOC_ALIGNMENT
    /\ ~Aligned(call.a)
    /\ call.a + call.b < AddrMod
    /\ GetAlignedStart(pre.obj) >= pre.obj.buffer_end
    /\ pre.obj.buffer_start # NULL_PTR

=============================================================================
